---- MODULE Spec2Model ----
(***************************************************************************)
(* Occasion Pricing Advisor (src/app.py): the cached calendar load and the *)
(* "Generate Pricing Report" handler, as a state machine over the widget   *)
(* values of one Streamlit session.                                        *)
(*                                                                         *)
(* Numbers.  The script computes in binary floating point; the model       *)
(* computes the same expressions in exact rationals <<num, den>> and       *)
(* rounds half-to-even as Series.round(0) does.  Factors that the source   *)
(* writes with two decimals (1.10, 0.98, a CSV multiplier 1.25) are the    *)
(* rationals 110/100, 98/100, 125/100.  On the widget values of this model *)
(* the double product and the exact product round to the same whole        *)
(* number, also where the exact product is on a half.                      *)
(***************************************************************************)
EXTENDS Integers, Sequences, FiniteSets, TLC

VARIABLES
    csv,             \* which occasion_calendar.csv is at the repo root, or Absent
    today,           \* datetime.now().date(), as a proleptic ordinal
    pc,              \* "start" before the first script run, then "ready"
    frames,          \* the live DataFrame objects, by name: calendar, df
    warning,         \* TRUE iff st.warning(...) of load_calendar was raised
    user_type,       \* sidebar radio
    original_price,  \* number_input
    condition,       \* slider 1..5
    material,        \* selectbox
    silhouette,      \* selectbox
    base_pct,        \* slider
    rush_markup,     \* slider
    weekend_markup,  \* slider
    event_date,      \* date_input: None, or <<ordinal>>
    report           \* what the last script run displayed

vars == <<csv, today, pc, frames, warning, user_type, original_price, condition,
          material, silhouette, base_pct, rush_markup, weekend_markup,
          event_date, report>>

widgets == <<user_type, original_price, condition, material, silhouette,
             base_pct, rush_markup, weekend_markup, event_date>>

\* Python's None is the empty tuple; a value v that may be None is <<v>>
None == <<>>
Some(v) == <<v>>
Val(o) == o[1]

Absent == "Absent"

-----------------------------------------------------------------------------
(* Exact rationals *)

RECURSIVE GCD(_, _)
GCD(a, b) == IF b = 0 THEN a ELSE GCD(b, a % b)

Abs(x) == IF x < 0 THEN -x ELSE x

\* n/d in lowest terms, d > 0
Frac(n, d) == LET g == GCD(Abs(n), d) IN <<n \div g, d \div g>>

\* f * (n/d), reduced crosswise before multiplying
FracMul(f, n, d) ==
    LET g1 == GCD(Abs(f[1]), d)
        g2 == GCD(Abs(n), f[2])
        a  == IF g1 = 0 THEN 1 ELSE g1
        b  == IF g2 = 0 THEN 1 ELSE g2
    IN  Frac((f[1] \div a) * (n \div b), (f[2] \div b) * (d \div a))

FracTimes(f, g) == FracMul(f, g[1], g[2])

\* round(0) of pandas/numpy: nearest integer, ties to the even one
RoundHalfEven(f) ==
    LET q == f[1] \div f[2]
        r == f[1] - q * f[2]
    IN  IF 2 * r < f[2] THEN q
        ELSE IF 2 * r > f[2] THEN q + 1
        ELSE IF q % 2 = 0 THEN q ELSE q + 1

-----------------------------------------------------------------------------
(* Dates: datetime.date as its proleptic ordinal (date.toordinal()) *)

\* days of 2026 before the first of each month
DaysBeforeMonth == <<0, 31, 59, 90, 120, 151, 181, 212, 243, 273, 304, 334>>

\* date(2026, m, d).toordinal(); 739616 is date(2025, 12, 31).toordinal()
Date(m, d) == 739616 + DaysBeforeMonth[m] + d

\* date.weekday(): Monday is 0, Sunday is 6
Weekday(d) == (d + 6) % 7

\* date.month, for the dates of 2026
MonthOf(d) ==
    CHOOSE m \in 1..12 :
        /\ DaysBeforeMonth[m] < d - 739616
        /\ (m = 12 \/ d - 739616 <= DaysBeforeMonth[m + 1])

-----------------------------------------------------------------------------
(* CSV files and DataFrames.  A file is a sequence of lines, the first the *)
(* header, each line a sequence of cells; a DataFrame is its column set    *)
(* and its rows, each row a function from column name to value.            *)

Header == <<"occasion", "user_type", "start_month", "end_month", "multiplier", "notes">>

default_csv == <<
    Header,
    <<"homecoming",      "highschool",  9, 10, 125, "Sept-Oct peak">>,
    <<"prom",            "highschool",  3,  5, 135, "Mar-May very high demand">>,
    <<"winter_formal",   "highschool", 12,  1, 115, "Dec-Jan school formals">>,
    <<"football_season", "college",     9, 11, 115, "Game days and tailgates">>,
    <<"date_parties",    "college",    10,  4, 110, "Themed mixers">>,
    <<"formals",         "college",    11,  4, 125, "Greek life and club formals">>,
    <<"rush",            "college",     8,  8, 120, "Panhellenic recruitment">> >>

\* pd.read_csv: the header names the columns, every further line is a row
read_csv(text) ==
    LET header == text[1]
        cols   == {header[i] : i \in 1..Len(header)}
        Cell(line, c) == line[CHOOSE i \in 1..Len(header) : header[i] = c]
    IN  [columns |-> cols,
         rows    |-> [r \in 1..(Len(text) - 1) |-> [c \in cols |-> Cell(text[r + 1], c)]]]

\* Files a user may have put at the repo root
CollegeOnlyCsv == <<
    Header,
    <<"formals",   "college", 11,  4, 125, "club formals">>,
    <<"clearance", "college",  6,  7,  10, "end of term">> >>

NoSegmentCsv == <<
    <<"occasion", "start_month", "end_month", "multiplier", "notes">>,
    <<"gala",    5, 6, 150, "spring gala">>,
    <<"holiday", 12, 1, 120, "holiday parties">> >>

NoMultiplierCsv == <<
    <<"occasion", "user_type", "start_month", "end_month", "notes">>,
    <<"prom",  "highschool", 3, 5, "no multiplier column">>,
    <<"rush",  "college",    8, 8, "no multiplier column">> >>

CsvFiles == {"college_only", "no_segment", "no_multiplier"}

\* the lines of the file at the repo root
FileText(name) ==
    CASE name = "college_only"  -> CollegeOnlyCsv
      [] name = "no_segment"    -> NoSegmentCsv
      [] name = "no_multiplier" -> NoMultiplierCsv

\* os.path.exists("occasion_calendar.csv")
path_exists(name) == name # Absent

load_calendar_silent(name) ==
    IF path_exists(name)
    THEN [frame |-> read_csv(FileText(name)), warned |-> FALSE]
    ELSE [frame |-> read_csv(default_csv),    warned |-> FALSE]

\* load_calendar(): the frame it returns and whether it warned
load_calendar(name) ==
    IF path_exists(name)
    THEN [frame |-> read_csv(FileText(name)), warned |-> FALSE]
    ELSE [frame |-> read_csv(default_csv),    warned |-> TRUE]

-----------------------------------------------------------------------------
(* Event info (lines 131-134) *)

days_to_event == IF event_date # None THEN Some(Val(event_date) - today) ELSE None

is_weekend == IF event_date # None THEN Weekday(Val(event_date)) >= 5 ELSE FALSE

-----------------------------------------------------------------------------
(* Pricing adjustments *)

material_adjust(material_name) ==
    CASE material_name = "Silk"      -> Frac(110, 100)
      [] material_name = "Satin"     -> Frac(107, 100)
      [] material_name = "Lace"      -> Frac(105, 100)
      [] material_name = "Sequin"    -> Frac(112, 100)
      [] material_name = "Cotton"    -> Frac(100, 100)
      [] material_name = "Polyester" -> Frac(98, 100)
      [] material_name = "Other"     -> Frac(100, 100)
      [] material_name = "Unknown"   -> Frac(100, 100)
      [] OTHER                       -> Frac(100, 100)

\* a dict lookup without default: defined on 1..5 only
condition_adjust(score) ==
    CASE score = 1 -> Frac(75, 100)
      [] score = 2 -> Frac(85, 100)
      [] score = 3 -> Frac(93, 100)
      [] score = 4 -> Frac(100, 100)
      [] score = 5 -> Frac(105, 100)

silhouette_adjust(sil) ==
    CASE sil = "mini"     -> Frac(100, 100)
      [] sil = "midi"     -> Frac(105, 100)
      [] sil = "gown"     -> Frac(115, 100)
      [] sil = "set"      -> Frac(102, 100)
      [] sil = "jumpsuit" -> Frac(95, 100)
      [] sil = "Unknown"  -> Frac(100, 100)
      [] OTHER            -> Frac(100, 100)

rush_weekend_multiplier_lt4(days, weekend, rush_pct, weekend_pct) ==
    LET m0 == Frac(1, 1)
        m1 == IF days # None /\ Val(days) < 4
              THEN FracMul(m0, 100 + rush_pct, 100) ELSE m0
    IN  IF weekend THEN FracMul(m1, 100 + weekend_pct, 100) ELSE m1

rush_weekend_multiplier(days, weekend, rush_pct, weekend_pct) ==
    LET m0 == Frac(1, 1)
        m1 == IF days # None /\ Val(days) <= 4
              THEN FracMul(m0, 100 + rush_pct, 100) ELSE m0
    IN  IF weekend THEN FracMul(m1, 100 + weekend_pct, 100) ELSE m1

\* lines 164-168: base rental before occasion multipliers
base_price ==
    LET b0 == FracMul(Frac(original_price, 1), base_pct, 100)
        b1 == FracTimes(b0, material_adjust(material))
        b2 == FracTimes(b1, condition_adjust(condition))
        b3 == FracTimes(b2, silhouette_adjust(silhouette))
    IN  FracTimes(b3, rush_weekend_multiplier(days_to_event, is_weekend,
                                              rush_markup, weekend_markup))

in_season_now_nowrap(row, month) ==
    (month >= row["start_month"]) /\ (month <= row["end_month"])

\* lines 175-178, for one row
in_season_now(row, month) ==
    \/ /\ row["start_month"] <= row["end_month"]
       /\ (month >= row["start_month"]) /\ (month <= row["end_month"])
    \/ /\ row["start_month"] > row["end_month"]
       /\ ((month >= row["start_month"]) \/ (month <= row["end_month"]))

suggested_price_trunc(base, row) ==
    LET f == FracMul(base, row["multiplier"], 100) IN f[1] \div f[2]

\* line 181: (base_price * multiplier).round(0); the multiplier cell is in hundredths
suggested_price(base, row) == RoundHalfEven(FracMul(base, row["multiplier"], 100))

low_as_high(sp) == RoundHalfEven(Frac(sp * 11, 10))

\* line 182: (suggested_price * 0.9).round(0).  The double nearest 0.9 times a
\* whole number n with 9n/10 on a half is that half exactly, so ties go to even.
low(sp) == RoundHalfEven(Frac(sp * 9, 10))

\* the greatest power of two that is <= k, for k >= 1
RECURSIVE Pow2Floor(_)
Pow2Floor(k) == IF k < 2 THEN 1 ELSE 2 * Pow2Floor(k \div 2)

\* line 183: (suggested_price * 1.1).round(0).  The double nearest 1.1 is
\* 1.1 + 0.4 * 2^-52; when 11n/10 is on a half k + 1/2, the double product is
\* above the half, and rounds up, iff 0.8 * n exceeds the power of two at or
\* below k; otherwise it is the half exactly and ties go to even.
high(sp) ==
    LET k == (sp * 11) \div 10
    IN  IF sp % 10 = 5 /\ 4 * sp > 5 * Pow2Floor(k)
        THEN k + 1
        ELSE RoundHalfEven(Frac(sp * 11, 10))

conf_gt4 ==
    70 + (IF material \in {"Silk", "Sequin"} /\ condition > 4 THEN 5 ELSE 0)
       + (IF silhouette = "gown" THEN 5 ELSE 0)

\* lines 186-188
conf ==
    70 + (IF material \in {"Silk", "Sequin"} /\ condition >= 4 THEN 5 ELSE 0)
       + (IF silhouette = "gown" THEN 5 ELSE 0)

-----------------------------------------------------------------------------
(* DataFrame operations *)

\* frame[frame["user_type"] == segment]: the rows whose cell equals segment
SelectSegment(frame, segment) ==
    LET Match(row) == row["user_type"] = segment
    IN  [columns |-> frame.columns, rows |-> SelectSeq(frame.rows, Match)]

\* frame[name] = values: the column is added, or overwritten, row by row
SetColumn(frame, name, values) ==
    [columns |-> frame.columns \cup {name},
     rows    |-> [i \in 1..Len(frame.rows) |->
                    [c \in frame.columns \cup {name} |->
                        IF c = name THEN values[i] ELSE frame.rows[i][c]]]]

\* frame[cols]: the projection that st.dataframe shows
Project(frame, cols) ==
    [i \in 1..Len(frame.rows) |-> [c \in cols |-> frame.rows[i][c]]]

DataFrameCopyAlias(ref) == ref

\* .copy() of a selection: a new object, bound to the name df
DataFrameCopy(ref) == "df"

\* the frames with the object named ref set to frame
Store(fr, ref, frame) ==
    [n \in DOMAIN fr \cup {ref} |-> IF n = ref THEN frame ELSE fr[n]]

display_cols == {"occasion", "start_month", "end_month", "multiplier",
                 "suggested_price", "low", "high", "in_season_now", "confidence_%"}

-----------------------------------------------------------------------------
(* Generate Pricing Report (lines 162-196).  A step's state is the frames   *)
(* and the KeyError raised so far ("" for none); a step after a KeyError    *)
(* does not run.                                                            *)

Raise(st, key) == [st EXCEPT !.error = key]

MissingOf(frame, cols) == {c \in cols : c \notin frame.columns}

\* line 171
StepFilter(st) ==
    IF "user_type" \notin st.frames["calendar"].columns
    THEN Raise(st, "user_type")
    ELSE [st EXCEPT
            !.ref    = DataFrameCopy("calendar"),
            !.frames = Store(st.frames, DataFrameCopy("calendar"),
                             SelectSegment(st.frames["calendar"], user_type))]

\* lines 174-178
StepInSeason(st) ==
    IF st.error # "" THEN st
    ELSE LET df == st.frames[st.ref]
             month == MonthOf(today)
         IN  IF MissingOf(df, {"start_month", "end_month"}) # {}
             THEN Raise(st, CHOOSE c \in MissingOf(df, {"start_month", "end_month"}) : TRUE)
             ELSE [st EXCEPT !.frames = Store(st.frames, st.ref,
                      SetColumn(df, "in_season_now",
                          [i \in 1..Len(df.rows) |-> in_season_now(df.rows[i], month)]))]

\* lines 181-183
StepPrices(st) ==
    IF st.error # "" THEN st
    ELSE LET df == st.frames[st.ref]
         IN  IF "multiplier" \notin df.columns
             THEN Raise(st, "multiplier")
             ELSE LET base == base_price
                      sp == [i \in 1..Len(df.rows) |-> suggested_price(base, df.rows[i])]
                      d1 == SetColumn(df, "suggested_price", sp)
                      d2 == SetColumn(d1, "low",  [i \in 1..Len(df.rows) |-> low(sp[i])])
                      d3 == SetColumn(d2, "high", [i \in 1..Len(df.rows) |-> high(sp[i])])
                 IN  [st EXCEPT !.frames = Store(st.frames, st.ref, d3)]

\* lines 186-189
StepConfidence(st) ==
    IF st.error # "" THEN st
    ELSE LET df == st.frames[st.ref]
         IN  [st EXCEPT !.frames = Store(st.frames, st.ref,
                 SetColumn(df, "confidence_%", [i \in 1..Len(df.rows) |-> conf]))]

\* lines 192-196
StepDisplay(st) ==
    IF st.error # "" THEN [frames |-> st.frames,
                           report |-> [status |-> "KeyError", key |-> st.error, rows |-> <<>>]]
    ELSE LET df == st.frames[st.ref]
         IN  IF MissingOf(df, display_cols) # {}
             THEN [frames |-> st.frames,
                   report |-> [status |-> "KeyError",
                               key |-> CHOOSE c \in MissingOf(df, display_cols) : TRUE,
                               rows |-> <<>>]]
             ELSE [frames |-> st.frames,
                   report |-> [status |-> "ok", key |-> "", rows |-> Project(df, display_cols)]]

\* the frames a script run starts with: the cached calendar only
RunStart(fr) == [n \in {"calendar"} |-> fr[n]]

PricingReport(fr) ==
    StepDisplay(StepConfidence(StepPrices(StepInSeason(StepFilter(
        [frames |-> RunStart(fr), ref |-> "calendar", error |-> ""])))))

NoReport == [status |-> "none", key |-> "", rows |-> <<>>]

-----------------------------------------------------------------------------
(* The session *)

\* the furthest event date the model enters, in days after today
MaxDaysAhead == 5

UserTypes      == {"highschool", "college"}
OriginalPrices == {10, 250}
Conditions     == {3, 4, 5}
Materials      == {"Unknown", "Silk", "Sequin"}
Silhouettes    == {"Unknown", "gown"}
BasePcts       == {5, 30}
RushMarkups    == {0, 10}
WeekendMarkups == {0, 5}
\* no date (the None branch of lines 133-134), yesterday, today (the
\* widget's default), and the days around the rush threshold
EventDates(t)  == {None, Some(t - 1), Some(t)} \cup {Some(t + k) : k \in 3..MaxDaysAhead}

\* the day of the session: the 14th of a month of 2026
Todays == {Date(m, 14) : m \in 1..12}

\* what the session finds at the repo root, and on which day
Environments ==
    {[csv |-> Absent, today |-> t] : t \in Todays}
    \cup {[csv |-> f, today |-> Date(1, 14)] : f \in CsvFiles}

Init ==
    /\ \E e \in Environments : csv = e.csv /\ today = e.today
    /\ pc = "start"
    /\ frames = <<>>
    /\ warning = FALSE
    /\ user_type = "highschool"
    /\ original_price = 250
    /\ condition = 5
    /\ material = "Unknown"
    /\ silhouette = "Unknown"
    /\ base_pct = 30
    /\ rush_markup = 10
    /\ weekend_markup = 5
    /\ event_date = Some(today)
    /\ report = NoReport

\* the first script run: load_calendar() computes and caches (lines 75-99)
LoadCalendar ==
    /\ pc = "start"
    /\ LET loaded == load_calendar(csv)
       IN  /\ frames' = [n \in {"calendar"} |-> loaded.frame]
           /\ warning' = loaded.warned
    /\ pc' = "ready"
    /\ UNCHANGED <<csv, today, widgets, report>>

\* a script run whose button is not pressed: no df, nothing displayed
Rerun ==
    /\ frames' = RunStart(frames)
    /\ report' = NoReport
    /\ UNCHANGED <<csv, today, pc, warning>>

SetUserType ==
    /\ pc = "ready"
    /\ \E v \in UserTypes : v # user_type /\ user_type' = v
    /\ Rerun
    /\ UNCHANGED <<original_price, condition, material, silhouette, base_pct, rush_markup, weekend_markup, event_date>>

SetOriginalPrice ==
    /\ pc = "ready"
    /\ \E v \in OriginalPrices : v # original_price /\ original_price' = v
    /\ Rerun
    /\ UNCHANGED <<user_type, condition, material, silhouette, base_pct, rush_markup, weekend_markup, event_date>>

SetCondition ==
    /\ pc = "ready"
    /\ \E v \in Conditions : v # condition /\ condition' = v
    /\ Rerun
    /\ UNCHANGED <<user_type, original_price, material, silhouette, base_pct, rush_markup, weekend_markup, event_date>>

SetMaterial ==
    /\ pc = "ready"
    /\ \E v \in Materials : v # material /\ material' = v
    /\ Rerun
    /\ UNCHANGED <<user_type, original_price, condition, silhouette, base_pct, rush_markup, weekend_markup, event_date>>

SetSilhouette ==
    /\ pc = "ready"
    /\ \E v \in Silhouettes : v # silhouette /\ silhouette' = v
    /\ Rerun
    /\ UNCHANGED <<user_type, original_price, condition, material, base_pct, rush_markup, weekend_markup, event_date>>

SetBasePct ==
    /\ pc = "ready"
    /\ \E v \in BasePcts : v # base_pct /\ base_pct' = v
    /\ Rerun
    /\ UNCHANGED <<user_type, original_price, condition, material, silhouette, rush_markup, weekend_markup, event_date>>

SetRushMarkup ==
    /\ pc = "ready"
    /\ \E v \in RushMarkups : v # rush_markup /\ rush_markup' = v
    /\ Rerun
    /\ UNCHANGED <<user_type, original_price, condition, material, silhouette, base_pct, weekend_markup, event_date>>

SetWeekendMarkup ==
    /\ pc = "ready"
    /\ \E v \in WeekendMarkups : v # weekend_markup /\ weekend_markup' = v
    /\ Rerun
    /\ UNCHANGED <<user_type, original_price, condition, material, silhouette, base_pct, rush_markup, event_date>>

SetEventDate ==
    /\ pc = "ready"
    /\ \E v \in EventDates(today) : v # event_date /\ event_date' = v
    /\ Rerun
    /\ UNCHANGED <<user_type, original_price, condition, material, silhouette, base_pct, rush_markup, weekend_markup>>

\* a script run with the button pressed (lines 162-196)
GenerateReport ==
    /\ pc = "ready"
    /\ LET out == PricingReport(frames)
       IN  frames' = out.frames /\ report' = out.report
    /\ UNCHANGED <<csv, today, pc, warning, widgets>>

Next ==
    \/ LoadCalendar
    \/ SetUserType
    \/ SetOriginalPrice
    \/ SetCondition
    \/ SetMaterial
    \/ SetSilhouette
    \/ SetBasePct
    \/ SetRushMarkup
    \/ SetWeekendMarkup
    \/ SetEventDate
    \/ GenerateReport

Spec == Init /\ [][Next]_vars

-----------------------------------------------------------------------------
(* Properties *)

Shown == report.status # "none"
Priced == report.status = "ok"
Calendar == frames["calendar"]
Required == {"occasion", "start_month", "end_month", "multiplier"}
Derived == {"in_season_now", "suggested_price", "low", "high", "confidence_%"}
RowsOf(seq) == {seq[i] : i \in 1..Len(seq)}

\* C1: when the calendar has no user_type column, or no row of the requested
\* segment, the report is computed over the whole calendar: every calendar
\* row appears in the output.
C1_SegmentFallback ==
    (/\ Shown
     /\ \/ "user_type" \notin Calendar.columns
        \/ \A r \in RowsOf(Calendar.rows) : r["user_type"] # user_type)
    => /\ Priced
       /\ Len(report.rows) = Len(Calendar.rows)
       /\ \A i \in 1..Len(Calendar.rows) :
             report.rows[i]["occasion"] = Calendar.rows[i]["occasion"]

\* C2: a request never completes successfully with an empty priced table:
\* when no row remains it ends in an explicit failure.
C2_EmptyResultRejected ==
    Priced => Len(report.rows) > 0

\* C3: every output row is flagged in season iff the current month is within
\* start..end, or, for a range that wraps the year (start > end), iff the
\* month is at or after start or at or before end; a 12..1 row is flagged
\* in months 12 and 1 only.
C3_InSeasonNow ==
    \A m \in 1..12 :
        (Priced /\ today = Date(m, 14)) =>
            \A r \in RowsOf(report.rows) :
                /\ r["start_month"] <= r["end_month"] =>
                      (r["in_season_now"] <=> (r["start_month"] <= m /\ m <= r["end_month"]))
                /\ r["start_month"] > r["end_month"] =>
                      (r["in_season_now"] <=> (m >= r["start_month"] \/ m <= r["end_month"]))
                /\ (r["start_month"] = 12 /\ r["end_month"] = 1) =>
                      (r["in_season_now"] <=> m \in {12, 1})

\* a report with a wrapping row in season and a plain row out of season
C3_Witness ==
    /\ Priced
    /\ \E r \in RowsOf(report.rows) :
          r["start_month"] > r["end_month"] /\ r["in_season_now"]
    /\ \E r \in RowsOf(report.rows) :
          r["start_month"] <= r["end_month"] /\ ~r["in_season_now"]

\* the rush and weekend factors, in hundredths, as the claim states them
RushFactor ==
    IF event_date # None /\ Val(event_date) - today <= 4 THEN 100 + rush_markup ELSE 100
WeekendFactor ==
    IF event_date # None /\ Weekday(Val(event_date)) \in {5, 6} THEN 100 + weekend_markup ELSE 100

C6_CalendarUnchanged ==
    pc = "ready" =>
        /\ Calendar = read_csv(IF csv = Absent THEN default_csv ELSE FileText(csv))
        /\ Calendar.columns \cap Derived = {}

\* a successful request whose copy carries the derived columns
C6_Witness ==
    /\ Priced
    /\ "df" \in DOMAIN frames
    /\ Derived \subseteq frames["df"].columns
    /\ Len(frames["df"].rows) > 0

\* the built-in calendar, as the claim lists it
BuiltIn == <<
    [occasion |-> "homecoming",      user_type |-> "highschool", start_month |-> 9,  end_month |-> 10, multiplier |-> 125],
    [occasion |-> "prom",            user_type |-> "highschool", start_month |-> 3,  end_month |-> 5,  multiplier |-> 135],
    [occasion |-> "winter_formal",   user_type |-> "highschool", start_month |-> 12, end_month |-> 1,  multiplier |-> 115],
    [occasion |-> "football_season", user_type |-> "college",    start_month |-> 9,  end_month |-> 11, multiplier |-> 115],
    [occasion |-> "date_parties",    user_type |-> "college",    start_month |-> 10, end_month |-> 4,  multiplier |-> 110],
    [occasion |-> "formals",         user_type |-> "college",    start_month |-> 11, end_month |-> 4,  multiplier |-> 125],
    [occasion |-> "rush",            user_type |-> "college",    start_month |-> 8,  end_month |-> 8,  multiplier |-> 120] >>

\* C7: with no calendar file the load yields exactly the 7 built-in rows and
\* raises the defaults-in-use warning; with a file present it does not warn.
C7_DefaultCalendar ==
    pc = "ready" =>
        IF csv = Absent
        THEN /\ warning
             /\ Len(Calendar.rows) = 7
             /\ \A i \in 1..7 : \A c \in DOMAIN BuiltIn[i] :
                   Calendar.rows[i][c] = BuiltIn[i][c]
        ELSE ~warning

\* the calendar loaded without a file
C7_Witness ==
    pc = "ready" /\ csv = Absent /\ warning /\ Len(Calendar.rows) = 7

\* n is a whole number nearest to the rational f
Nearest(n, f) == 2 * Abs(n * f[2] - f[1]) <= f[2]

\* original_price x base_pct/100 x material x condition x silhouette factors
\* x rush/weekend multiplier x the row's multiplier
ExactPrice(row) ==
    LET p1 == FracMul(Frac(original_price, 1), base_pct, 100)
        p2 == FracTimes(FracTimes(FracTimes(p1, material_adjust(material)),
                                  condition_adjust(condition)),
                        silhouette_adjust(silhouette))
        p3 == FracMul(FracMul(p2, RushFactor, 100), WeekendFactor, 100)
    IN  FracMul(p3, row["multiplier"], 100)

\* the worked example: 250 at 30%, Silk, condition 5, gown, rush 10%,
\* weekend 5%, a Saturday 3 days away
Example ==
    /\ original_price = 250 /\ base_pct = 30 /\ material = "Silk"
    /\ condition = 5 /\ silhouette = "gown"
    /\ rush_markup = 10 /\ weekend_markup = 5
    /\ event_date = Some(today + 3) /\ Weekday(today + 3) = 5

\* C8: on every output row suggested_price is the product of the factors
\* rounded to the nearest whole unit, low and high are 0.90 and 1.10 times
\* the rounded suggested_price, rounded again; the worked example with a
\* multiplier of 1.25 gives 144, 130 and 158.
C8_SuggestedPrice ==
    Priced =>
        \A r \in RowsOf(report.rows) :
            /\ Nearest(r["suggested_price"], ExactPrice(r))
            /\ Nearest(r["low"],  Frac(r["suggested_price"] * 90, 100))
            /\ Nearest(r["high"], Frac(r["suggested_price"] * 110, 100))
            /\ (Example /\ r["multiplier"] = 125) =>
                  /\ r["suggested_price"] = 144
                  /\ r["low"] = 130
                  /\ r["high"] = 158

\* the worked example, priced
C8_Witness ==
    /\ Priced
    /\ Example
    /\ \E r \in RowsOf(report.rows) :
          r["multiplier"] = 125 /\ r["suggested_price"] = 144

\* C9: confidence is the same on every output row: 70, plus 5 iff the
\* material is Silk or Sequin and the condition is at least 4, plus 5 iff
\* the silhouette is gown; so it is 70, 75 or 80.
C9_Confidence ==
    Priced =>
        \A r \in RowsOf(report.rows) :
            /\ r["confidence_%"] \in {70, 75, 80}
            /\ r["confidence_%"] - 70 =
                  (IF (material = "Silk" \/ material = "Sequin") /\ condition >= 4 THEN 5 ELSE 0)
                  + (IF silhouette = "gown" THEN 5 ELSE 0)

\* a Sequin item in condition 4, not a gown, priced on several rows
C9_Witness ==
    /\ Priced
    /\ material = "Sequin" /\ condition = 4 /\ silhouette # "gown"
    /\ Len(report.rows) > 1
    /\ \A r \in RowsOf(report.rows) : r["confidence_%"] = 75

\* C10: with a positive price and a positive row multiplier, every output
\* row has low <= suggested_price <= high.
C10_Band ==
    (Priced /\ original_price > 0) =>
        \A r \in RowsOf(report.rows) :
            r["multiplier"] > 0 =>
                (r["low"] <= r["suggested_price"] /\ r["suggested_price"] <= r["high"])

\* a report with a row priced at 0 (the band collapses) and a row whose
\* band is strict on both sides
C10_Witness ==
    /\ Priced
    /\ \E r \in RowsOf(report.rows) :
          r["suggested_price"] = 0 /\ r["low"] = 0 /\ r["high"] = 0
    /\ \E r \in RowsOf(report.rows) :
          r["low"] < r["suggested_price"] /\ r["suggested_price"] < r["high"]

====
